---- MODULE Spec2Model ----
(***************************************************************************)
(* State-machine model of CircleDirective (src/ts/circle.directive.ts):    *)
(* the Angular directive that wraps a Leaflet Circle, forwards host        *)
(* property writes to the Leaflet layer and re-emits the layer's events.   *)
(*                                                                         *)
(* Every action is one host-callable operation (a setter, a lifecycle      *)
(* hook) or one native Leaflet event.  Each action records what the call   *)
(* did in the bookkeeping variables lastOp / out / calls / fired / error,  *)
(* which are overwritten by the next call.                                 *)
(*                                                                         *)
(* Leaflet itself (Circle, Path, Layer, Map, the SVG renderer) is the      *)
(* environment; its behaviour is the one of Leaflet 1.0.3, the version the *)
(* source links to.                                                        *)
(***************************************************************************)
EXTENDS Integers, Sequences, FiniteSets, TLC

VARIABLES
    initialized,       \* private initialized flag (line 200)
    destroyed,         \* ngOnDestroy has run (framework calls it once)
    popupDirective,    \* a child popup directive was resolved by the host
    tooltipDirective,  \* a child tooltip directive was resolved by the host
    popupBound,        \* bindPopup has been called
    tooltipBound,      \* bindTooltip has been called
    onMap,             \* this._map is set: the layer is in the map's registry
    pathParent,        \* this._path.parentElement is not null
    pathDisplay,       \* this._path.style.display, "" or "none"
    latlng,            \* this._latlng, always a LatLng
    properties,        \* this.feature.properties
    interactive,       \* this.options.interactive
    options,           \* the style part of this.options
    styleCalls,        \* number of setStyle calls made so far
    lastOp,            \* the last operation and its argument
    out,               \* emissions of the last operation, in order
    calls,             \* calls on the map / layer hooks made by the last operation
    fired,             \* native Leaflet events fired during the last operation
    error,             \* error thrown by the last operation, "none" if it returned
    lastDisplay,       \* payload of the most recent displayChange emission
    visOnly            \* only display writes and native attach/detach so far

vars == <<initialized, destroyed, popupDirective, tooltipDirective, popupBound,
          tooltipBound, onMap, pathParent, pathDisplay, latlng, properties,
          interactive, options, styleCalls, lastOp, out, calls, fired, error,
          lastDisplay, visOnly>>

lifeVars == <<initialized, destroyed, popupDirective, tooltipDirective, popupBound,
              tooltipBound>>
layerVars == <<onMap, pathParent, pathDisplay>>
geoVars == <<latlng, properties>>
styleVars == <<options, styleCalls>>

\* ------------------------------------------------------------------ bounds
MaxCoord == 1
MaxStyleCalls == 1

Coords == 0..MaxCoord
PropValues == {"pA", "pB"}
EventData == {"e1", "e2"}
GeomTypes == {"Point", "LineString", "Polygon"}
StyleValues == {0, 1}

\* ------------------------------------------------------------- emissions
Emission(output, val) == [out |-> output, val |-> val]

\* number of emissions of the last operation on one output
CountOut(s, output) == Cardinality({i \in 1..Len(s) : s[i].out = output})

\* ------------------------------------------------------ constructor steps
On(type, output, payload) ==
    [kind |-> "on", type |-> type, output |-> output, payload |-> payload]

\* the constructor as it would be with the two display payloads exchanged
ConstructorStepsSwapped ==
    << On("remove", "displayChange", "true"),
       On("add", "displayChange", "false"),
       [kind |-> "addLayer", type |-> "", output |-> "", payload |-> ""],
       On("add", "add", "event"),
       On("remove", "remove", "event"),
       On("popupopen", "popupopen", "event"),
       On("popupclose", "popupclose", "event"),
       On("tooltipopen", "tooltipopen", "event"),
       On("tooltipclose", "tooltipclose", "event"),
       On("click", "click", "event"),
       On("dbclick", "dbclick", "event"),
       On("mousedown", "mousedown", "event"),
       On("mouseover", "mouseover", "event"),
       On("mouseout", "mouseout", "event"),
       On("contextmenu", "contextmenu", "event") >>

\* the constructor as it would be if it registered with the map last
ConstructorStepsAddLayerLast ==
    << On("remove", "displayChange", "false"),
       On("add", "displayChange", "true"),
       On("add", "add", "event"),
       On("remove", "remove", "event"),
       On("popupopen", "popupopen", "event"),
       On("popupclose", "popupclose", "event"),
       On("tooltipopen", "tooltipopen", "event"),
       On("tooltipclose", "tooltipclose", "event"),
       On("click", "click", "event"),
       On("dbclick", "dbclick", "event"),
       On("mousedown", "mousedown", "event"),
       On("mouseover", "mouseover", "event"),
       On("mouseout", "mouseout", "event"),
       On("contextmenu", "contextmenu", "event"),
       [kind |-> "addLayer", type |-> "", output |-> "", payload |-> ""] >>

\* The constructor's statements that subscribe or register, in source order.
ConstructorSteps ==
    << On("remove", "displayChange", "false"),
       On("add", "displayChange", "true"),
       [kind |-> "addLayer", type |-> "", output |-> "", payload |-> ""],
       On("add", "add", "event"),
       On("remove", "remove", "event"),
       On("popupopen", "popupopen", "event"),
       On("popupclose", "popupclose", "event"),
       On("tooltipopen", "tooltipopen", "event"),
       On("tooltipclose", "tooltipclose", "event"),
       On("click", "click", "event"),
       On("dbclick", "dbclick", "event"),
       On("mousedown", "mousedown", "event"),
       On("mouseover", "mouseover", "event"),
       On("mouseout", "mouseout", "event"),
       On("contextmenu", "contextmenu", "event") >>

IsOn(s) == s.kind = "on"

\* listeners registered once the constructor has returned
Listeners == SelectSeq(ConstructorSteps, IsOn)

\* listeners already registered when the constructor calls addLayer
ListenersAtAddLayer ==
    LET i == CHOOSE j \in 1..Len(ConstructorSteps) : ConstructorSteps[j].kind = "addLayer"
    IN  SelectSeq(SubSeq(ConstructorSteps, 1, i - 1), IsOn)

\* the event types Leaflet fires on a Circle that the spec lists
LeafletEvents ==
    {"add", "remove", "popupopen", "popupclose", "tooltipopen", "tooltipclose",
     "click", "dblclick", "mousedown", "mouseover", "mouseout", "contextmenu"}
InteractionEvents == LeafletEvents \ {"add", "remove"}

Event(type, data) == [type |-> type, data |-> data]

\* what one listener emits when it receives ev
ListenerEmits(l, ev) ==
    IF l.payload = "event" THEN Emission(l.output, ev)
    ELSE Emission(l.output, l.payload = "true")

\* Leaflet's fire(): the listeners of ev.type run in registration order
Fire(ev, ls) ==
    LET m == SelectSeq(ls, LAMBDA l : l.type = ev.type)
    IN  [i \in 1..Len(m) |-> ListenerEmits(m[i], ev)]

\* payload of the last displayChange emission of s, or old if there is none
LastDisplayAfter(s, old) ==
    LET idx == {i \in 1..Len(s) : s[i].out = "displayChange"}
    IN  IF idx = {} THEN old
        ELSE s[CHOOSE i \in idx : \A j \in idx : j <= i].val

\* ---------------------------------------------------------------- style
StyleKeys ==
    << "stroke", "color", "weight", "opacity", "lineCap", "lineJoin", "dashArray",
       "dashOffset", "fill", "fillColor", "fillOpacity", "fillRule", "className" >>
StyleKeySet == {StyleKeys[i] : i \in 1..Len(StyleKeys)}
DefaultOptions == [k \in StyleKeySet |-> 0]


\* -------------------------------------------------------------- position
\* the three shapes a position is accepted in
TuplePositions == {[shape |-> "tuple", v |-> <<a, b>>] : a \in Coords, b \in Coords}
LiteralPositions ==
    {[shape |-> "literal", v |-> [lat |-> a, lng |-> b]] : a \in Coords, b \in Coords}
NativePositions ==
    {[shape |-> "LatLng", v |-> [lat |-> a, lng |-> b]] : a \in Coords, b \in Coords}

\* Leaflet's toLatLng, applied by super.setLatLng: an array is [lat, lng]
toLatLng(val) ==
    IF val.shape = "tuple" THEN [lat |-> val.v[1], lng |-> val.v[2]]
    ELSE [lat |-> val.v.lat, lng |-> val.v.lng]

Tuple(a, b) == [shape |-> "tuple", v |-> <<a, b>>]

\* lng2lat of ./lng2lat: GeoJSON [lng, lat] coordinates to a [lat, lng] tuple
lng2lat(coordinates) == Tuple(coordinates[2], coordinates[1])

\* Leaflet's toGeoJSON for a circle: the stored feature with a fresh Point
\* geometry whose coordinates are [lng, lat]
toGeoJSON(ll, props) ==
    [type |-> "Feature", properties |-> props,
     geometry |-> [type |-> "Point", coordinates |-> <<ll.lng, ll.lat>>]]

\* the geoJSON getter
geoJSON == toGeoJSON(latlng, properties)

Features ==
    {[type |-> "Feature", properties |-> p,
      geometry |-> [type |-> t, coordinates |-> <<x, y>>]] :
        p \in PropValues, t \in GeomTypes, x \in Coords, y \in Coords}

\* setLatLng as it would be without the initialized test
SetLatLngEmitsAlways(init, ll, props) ==
    << Emission("positionChange", ll),
       Emission("latChange", ll.lat),
       Emission("lngChange", ll.lng),
       Emission("geoJSONChange", toGeoJSON(ll, props)) >>

\* setLatLng's emissions once super.setLatLng has stored ll
SetLatLngEmits(init, ll, props) ==
    IF ~init THEN << >>
    ELSE << Emission("positionChange", ll),
            Emission("latChange", ll.lat),
            Emission("lngChange", ll.lng),
            Emission("geoJSONChange", toGeoJSON(ll, props)) >>

\* the geoJSON setter as it would be without the geometry-kind check
GeoJSONRejectsNothing(val) == FALSE

\* the geoJSON setter's geometry-kind check
GeoJSONRejects(val) == val.geometry.type # "Point"

\* the geoJSON setter as it would be if it passed the coordinates on unswapped
GeoJSONPositionUnswapped(val) ==
    Tuple(val.geometry.coordinates[1], val.geometry.coordinates[2])

\* the geoJSON setter as it would be if it stored the properties only once
\* the geometry kind is accepted
GeoJSONPropertiesAfterCheck(val, old) ==
    IF GeoJSONRejects(val) THEN old ELSE val.properties

\* the feature properties the geoJSON setter stores, in its first statement,
\* over the ones held before
GeoJSONProperties(val, old) == val.properties

\* the position the geoJSON setter hands to setLatLng
GeoJSONPosition(val) == lng2lat(val.geometry.coordinates)

\* ------------------------------------------------------------ visibility
\* the display getter: getElement() returns the path element without throwing
DisplayGet(parent, disp) == disp # "none" /\ parent

\* the display setter's emissions for a write of val
DisplaySetEmits(val, parent, disp) ==
    IF DisplayGet(parent, disp) = val THEN << >>
    ELSE << Emission("displayChange", val) >>

\* the style.display the display setter leaves behind
DisplaySetStyle(val, parent, disp) ==
    IF DisplayGet(parent, disp) = val THEN disp
    ELSE IF val THEN "" ELSE "none"

\* --------------------------------------------------------- bookkeeping
Done(op, arg, o, c, f, e) ==
    /\ lastOp' = [op |-> op, arg |-> arg]
    /\ out' = o
    /\ calls' = c
    /\ fired' = f
    /\ error' = e
    /\ lastDisplay' = LastDisplayAfter(o, lastDisplay)

\* ------------------------------------------------------------------ Init
\* The state when the constructor has returned.  MapComponent has a view
\* from its own construction on, so addLayer attaches the layer at once and
\* Leaflet fires 'add' to the listeners registered so far.  The host template
\* declares a popup child and no tooltip child.
Init ==
    /\ initialized = FALSE
    /\ destroyed = FALSE
    /\ popupDirective = TRUE
    /\ tooltipDirective = FALSE
    /\ popupBound = FALSE
    /\ tooltipBound = FALSE
    /\ onMap = TRUE
    /\ pathParent = TRUE
    /\ pathDisplay = ""
    /\ latlng = toLatLng(Tuple(0, 0))
    /\ properties = "empty"
    /\ interactive = TRUE
    /\ options = DefaultOptions
    /\ styleCalls = 0
    /\ lastOp = [op |-> "constructor", arg |-> "mapComponent"]
    /\ out = Fire(Event("add", "none"), ListenersAtAddLayer)
    /\ calls = << "addLayer" >>
    /\ fired = << Event("add", "none") >>
    /\ error = "none"
    /\ lastDisplay = LastDisplayAfter(Fire(Event("add", "none"), ListenersAtAddLayer), FALSE)
    /\ visOnly = TRUE

\* ------------------------------------------------------- lifecycle hooks
ngAfterContentInit ==
    /\ ~initialized
    /\ ~destroyed
    /\ initialized' = TRUE
    /\ popupBound' = popupDirective
    /\ tooltipBound' = tooltipDirective
    /\ Done("ngAfterContentInit", "none", << >>, << >>, << >>, "none")
    /\ visOnly' = FALSE
    /\ UNCHANGED <<destroyed, popupDirective, tooltipDirective, layerVars, geoVars,
                   interactive, styleVars>>

\* ngOnDestroy as it would be if it called this._map.removeLayer(this) directly
DestroyCallsUnguarded(on) == << "removeLayer" >>

\* calls ngOnDestroy makes: removeFrom(map) calls map.removeLayer iff map is set
DestroyCalls(on) == IF on THEN << "removeLayer" >> ELSE << >>

\* Leaflet's Map.removeLayer: onRemove takes the path out of the renderer,
\* then 'remove' is fired and _map is cleared.  A removeLayer call on an
\* unset map would dereference null and throw.
ngOnDestroy ==
    /\ ~destroyed
    /\ destroyed' = TRUE
    /\ LET c == DestroyCalls(onMap)
           removed == c # << >> /\ onMap
           f == IF removed THEN << Event("remove", "none") >> ELSE << >>
       IN  /\ onMap' = IF removed THEN FALSE ELSE onMap
           /\ pathParent' = IF removed THEN FALSE ELSE pathParent
           /\ Done("ngOnDestroy", "none",
                   IF removed THEN Fire(f[1], Listeners) ELSE << >>,
                   c, f,
                   IF c # << >> /\ ~onMap THEN "TypeError" ELSE "none")
    /\ visOnly' = FALSE
    /\ UNCHANGED <<initialized, popupDirective, tooltipDirective, popupBound,
                   tooltipBound, pathDisplay, geoVars, interactive, styleVars>>

\* ------------------------------------------------ native Leaflet events
\* map.removeLayer(circle) called by other code: a native detach
MapRemoveLayer ==
    /\ onMap
    /\ onMap' = FALSE
    /\ pathParent' = FALSE
    /\ Done("mapRemoveLayer", "none", Fire(Event("remove", "none"), Listeners),
            << >>, << Event("remove", "none") >>, "none")
    /\ visOnly' = visOnly
    /\ UNCHANGED <<lifeVars, pathDisplay, geoVars, interactive, styleVars>>

\* map.addLayer(circle) called by other code: a native attach.  Path.onAdd
\* creates a fresh path element (_initPath) and appends it (_addPath).
MapAddLayer ==
    /\ ~onMap
    /\ onMap' = TRUE
    /\ pathParent' = TRUE
    /\ pathDisplay' = ""
    /\ Done("mapAddLayer", "none", Fire(Event("add", "none"), Listeners),
            << >>, << Event("add", "none") >>, "none")
    /\ visOnly' = visOnly
    /\ UNCHANGED <<lifeVars, geoVars, interactive, styleVars>>

\* any other native event of the layer
NativeEvent ==
    \E type \in InteractionEvents, data \in EventData :
        /\ Done("nativeEvent", Event(type, data), Fire(Event(type, data), Listeners),
                << >>, << Event(type, data) >>, "none")
        /\ visOnly' = FALSE
        /\ UNCHANGED <<lifeVars, layerVars, geoVars, interactive, styleVars>>

\* ------------------------------------------------------------- position
\* the body of setLatLng(val), recorded as operation op with argument arg
SetLatLngBody(op, arg, val, props) ==
    /\ latlng' = toLatLng(val)
    /\ Done(op, arg, SetLatLngEmits(initialized, toLatLng(val), props),
            << "setLatLng" >>, << >>, "none")
    /\ visOnly' = FALSE
    /\ UNCHANGED <<lifeVars, layerVars, interactive, styleVars>>

setLatLng ==
    \/ \E val \in TuplePositions :
        SetLatLngBody("setLatLng", val, val, properties) /\ UNCHANGED properties
    \/ \E val \in LiteralPositions :
        SetLatLngBody("setLatLng", val, val, properties) /\ UNCHANGED properties
    \/ \E val \in NativePositions :
        SetLatLngBody("setLatLng", val, val, properties) /\ UNCHANGED properties

position_set ==
    \/ \E val \in TuplePositions :
        SetLatLngBody("position", val, val, properties) /\ UNCHANGED properties
    \/ \E val \in LiteralPositions :
        SetLatLngBody("position", val, val, properties) /\ UNCHANGED properties
    \/ \E val \in NativePositions :
        SetLatLngBody("position", val, val, properties) /\ UNCHANGED properties

lat_set ==
    \E val \in Coords :
        SetLatLngBody("lat", val, Tuple(val, latlng.lng), properties)
        /\ UNCHANGED properties

lng_set ==
    \E val \in Coords :
        SetLatLngBody("lng", val, Tuple(latlng.lat, val), properties)
        /\ UNCHANGED properties

\* the geoJSON setter: the properties are replaced first, then the geometry
\* kind is checked, then setLatLng is called
geoJSON_set ==
    \E val \in Features :
        /\ properties' = GeoJSONProperties(val, properties)
        /\ IF GeoJSONRejects(val)
           THEN /\ Done("geoJSON", val, << >>, << >>, << >>, "UnsupportedGeometry")
                /\ visOnly' = FALSE
                /\ UNCHANGED <<lifeVars, layerVars, latlng, interactive, styleVars>>
           ELSE SetLatLngBody("geoJSON", val, GeoJSONPosition(val),
                              GeoJSONProperties(val, properties))

\* the properties setter
properties_set ==
    \E val \in PropValues :
        /\ properties' = val
        /\ Done("properties", val, << Emission("geoJSONChange", toGeoJSON(latlng, val)) >>,
                << >>, << >>, "none")
        /\ visOnly' = FALSE
        /\ UNCHANGED <<lifeVars, layerVars, latlng, interactive, styleVars>>

\* ----------------------------------------------------------- visibility
display_set ==
    \E val \in BOOLEAN :
        /\ pathDisplay' = DisplaySetStyle(val, pathParent, pathDisplay)
        /\ Done("display", val, DisplaySetEmits(val, pathParent, pathDisplay),
                << >>, << >>, "none")
        /\ visOnly' = visOnly
        /\ UNCHANGED <<lifeVars, onMap, pathParent, geoVars, interactive, styleVars>>

\* the interactive setter as it would be if it re-added before removing
InteractiveCallsAddFirst == << "options.interactive", "onAdd", "onRemove" >>

\* the statements of the interactive setter, in source order: the option is
\* stored, then the layer's onRemove and onAdd hooks are called with this._map
InteractiveCalls == << "options.interactive", "onRemove", "onAdd" >>

IsHook(step) == step \in {"onRemove", "onAdd"}

\* the statements that run: without a map the first hook dereferences the
\* null map and throws, so nothing after it runs
InteractiveRun(steps, on) ==
    IF on THEN steps
    ELSE SubSeq(steps, 1, CHOOSE i \in 1..Len(steps) :
                            IsHook(steps[i]) /\ \A j \in 1..(i - 1) : ~IsHook(steps[j]))

\* Path.onRemove takes the path element out of the renderer; Path.onAdd
\* creates a fresh path element (_initPath) and appends it (_addPath)
RECURSIVE HookEffects(_, _, _)
HookEffects(steps, i, path) ==
    IF i > Len(steps) THEN path
    ELSE HookEffects(steps, i + 1,
            IF steps[i] = "onRemove" THEN [parent |-> FALSE, display |-> path.display]
            ELSE IF steps[i] = "onAdd" THEN [parent |-> TRUE, display |-> ""]
            ELSE path)

\* The interactive setter.  Neither hook fires an event, and neither touches
\* the map's registry.
interactive_set ==
    \E val \in BOOLEAN :
        LET run == InteractiveRun(InteractiveCalls, onMap)
            path == IF onMap
                    THEN HookEffects(run, 1, [parent |-> pathParent, display |-> pathDisplay])
                    ELSE [parent |-> pathParent, display |-> pathDisplay]
        IN  /\ interactive' = IF \E i \in 1..Len(run) : run[i] = "options.interactive"
                              THEN val ELSE interactive
            /\ pathParent' = path.parent
            /\ pathDisplay' = path.display
            /\ onMap' = onMap
            /\ Done("interactive", val, << >>, run, << >>,
                    IF onMap THEN "none" ELSE "TypeError")
            /\ visOnly' = FALSE
            /\ UNCHANGED <<lifeVars, geoVars, styleVars>>

Next ==
    \/ ngAfterContentInit
    \/ ngOnDestroy
    \/ MapRemoveLayer
    \/ MapAddLayer
    \/ NativeEvent
    \/ setLatLng
    \/ position_set
    \/ lat_set
    \/ lng_set
    \/ geoJSON_set
    \/ properties_set
    \/ display_set
    \/ interactive_set

Spec == Init /\ [][Next]_vars

\* ----------------------------------------------------------------- style
\* style bags: the empty bag and every bag of one or two recognized keys
BagKeySets == {{}} \cup {{a, b} : a \in StyleKeySet, b \in StyleKeySet}
Bags == UNION {[S -> StyleValues] : S \in BagKeySets}

\* Leaflet's setOptions, applied by super.setStyle: the bag overlays the options
MergeOptions(opts, style) ==
    [k \in StyleKeySet |-> IF k \in DOMAIN style THEN style[k] ELSE opts[k]]

\* the hasOwnProperty tests of setStyle, in source order
RECURSIVE KeyEmits(_, _)
KeyEmits(style, i) ==
    IF i > Len(StyleKeys) THEN << >>
    ELSE (IF StyleKeys[i] \in DOMAIN style
          THEN << Emission(StyleKeys[i] \o "Change", style[StyleKeys[i]]) >>
          ELSE << >>) \o KeyEmits(style, i + 1)

\* setStyle as it would be if it notified only the keys whose value changes
SetStyleEmitsIfChanged(style) ==
    LET changed == {k \in DOMAIN style : style[k] # options[k]}
    IN  KeyEmits([k \in changed |-> style[k]], 1) \o << Emission("styleChange", style) >>

\* everything setStyle(style) emits
SetStyleEmits(style) == KeyEmits(style, 1) \o << Emission("styleChange", style) >>

\* the body of setStyle(style), recorded as operation op with argument arg
SetStyleBody(op, arg, style) ==
    /\ styleCalls < MaxStyleCalls
    /\ styleCalls' = styleCalls + 1
    /\ options' = MergeOptions(options, style)
    /\ Done(op, arg, SetStyleEmits(style), << "setStyle" >>, << >>, "none")
    /\ visOnly' = FALSE
    /\ UNCHANGED <<lifeVars, layerVars, geoVars, interactive>>

setStyle == \E style \in Bags : SetStyleBody("setStyle", style, style)
style_set == \E val \in Bags : SetStyleBody("style", val, val)
opacity_set == \E val \in StyleValues : SetStyleBody("opacity", val, "opacity" :> val)
stroke_set == \E val \in StyleValues : SetStyleBody("stroke", val, "stroke" :> val)
color_set == \E val \in StyleValues : SetStyleBody("color", val, "color" :> val)
weight_set == \E val \in StyleValues : SetStyleBody("weight", val, "weight" :> val)
lineCap_set == \E val \in StyleValues : SetStyleBody("lineCap", val, "lineCap" :> val)
lineJoin_set == \E val \in StyleValues : SetStyleBody("lineJoin", val, "lineJoin" :> val)
dashArray_set == \E val \in StyleValues : SetStyleBody("dashArray", val, "dashArray" :> val)
dashOffset_set ==
    \E val \in StyleValues : SetStyleBody("dashOffset", val, "dashOffset" :> val)
fill_set == \E val \in StyleValues : SetStyleBody("fill", val, "fill" :> val)
fillColor_set == \E val \in StyleValues : SetStyleBody("fillColor", val, "fillColor" :> val)
fillOpacity_set ==
    \E val \in StyleValues : SetStyleBody("fillOpacity", val, "fillOpacity" :> val)
fillRule_set == \E val \in StyleValues : SetStyleBody("fillRule", val, "fillRule" :> val)
className_set == \E val \in StyleValues : SetStyleBody("className", val, "className" :> val)

NextStyle ==
    \/ setStyle
    \/ style_set
    \/ opacity_set
    \/ stroke_set
    \/ color_set
    \/ weight_set
    \/ lineCap_set
    \/ lineJoin_set
    \/ dashArray_set
    \/ dashOffset_set
    \/ fill_set
    \/ fillColor_set
    \/ fillOpacity_set
    \/ fillRule_set
    \/ className_set

SpecStyle == Init /\ [][NextStyle]_vars

\* =============================================================== claims
StyleOps == StyleKeySet \cup {"setStyle", "style"}
PositionOps == {"setLatLng", "position", "lat", "lng", "geoJSON"}
ReemitOutputs ==
    {"add", "remove", "popupopen", "popupclose", "tooltipopen", "tooltipclose",
     "click", "dbclick", "mousedown", "mouseover", "mouseout", "contextmenu"}

\* the style bag the last style operation passed to setStyle
LastBag ==
    IF lastOp.op \in {"setStyle", "style"} THEN lastOp.arg ELSE lastOp.op :> lastOp.arg

\* payload of the first emission of s on output
ValOf(s, output) == s[CHOOSE i \in 1..Len(s) : s[i].out = output].val

Range(s) == {s[i] : i \in 1..Len(s)}

\* latitude and longitude a position argument stands for
ShapeLat(val) == IF val.shape = "tuple" THEN val.v[1] ELSE val.v.lat
ShapeLng(val) == IF val.shape = "tuple" THEN val.v[2] ELSE val.v.lng

\* the host output a native event type is to be re-emitted on
HostOutput(type) == IF type = "dblclick" THEN "dbclick" ELSE type

\* C1: a setStyle call emits the k-changed notification exactly once, with the
\* bag's value for k, iff k is an own key of the bag, whether or not the value
\* differs from the previous one; it emits no notification for an absent key.
C1_KeyNotifiedIffInBag ==
    lastOp.op \in StyleOps =>
        /\ \A k \in StyleKeySet :
            /\ CountOut(out, k \o "Change") = (IF k \in DOMAIN LastBag THEN 1 ELSE 0)
            /\ k \in DOMAIN LastBag => ValOf(out, k \o "Change") = LastBag[k]
        /\ Len(out) = Cardinality(DOMAIN LastBag) + 1

\* a two-key bag whose opacity equals the previous opacity still notifies it
C1_Witness ==
    /\ lastOp.op = "setStyle"
    /\ DOMAIN lastOp.arg = {"opacity", "color"}
    /\ lastOp.arg["opacity"] = DefaultOptions["opacity"]
    /\ lastOp.arg["color"] = 1
    /\ CountOut(out, "opacityChange") = 1
    /\ CountOut(out, "weightChange") = 0

\* C2: every setStyle call emits exactly one style-changed notification, after
\* all specific-key notifications, carrying the full merged style.
C2_StyleChangedCarriesMergedStyle ==
    lastOp.op \in StyleOps =>
        /\ CountOut(out, "styleChange") = 1
        /\ out[Len(out)].out = "styleChange"
        /\ out[Len(out)].val = options

\* C3: a setPosition call made before initialization applies the position and
\* emits none of the four position notifications; one made after it emits each
\* of the four exactly once, carrying the new position.
C3_PositionNotifications ==
    (lastOp.op \in PositionOps /\ error = "none") =>
        /\ lastOp.op \in {"setLatLng", "position"} =>
            latlng = [lat |-> ShapeLat(lastOp.arg), lng |-> ShapeLng(lastOp.arg)]
        /\ lastOp.op = "lat" => latlng.lat = lastOp.arg
        /\ lastOp.op = "lng" => latlng.lng = lastOp.arg
        /\ lastOp.op = "geoJSON" =>
            << latlng.lng, latlng.lat >> = lastOp.arg.geometry.coordinates
        /\ IF ~initialized
           THEN Len(out) = 0
           ELSE /\ Len(out) = 4
                /\ \A o \in {"positionChange", "latChange", "lngChange", "geoJSONChange"} :
                    CountOut(out, o) = 1
                /\ ValOf(out, "positionChange") = latlng
                /\ ValOf(out, "latChange") = latlng.lat
                /\ ValOf(out, "lngChange") = latlng.lng
                /\ ValOf(out, "geoJSONChange").geometry.coordinates
                       = << latlng.lng, latlng.lat >>

\* a position written before initialization is stored without any emission
C3_Witness ==
    /\ ~initialized
    /\ lastOp.op = "position"
    /\ latlng = [lat |-> 1, lng |-> 0]
    /\ Len(out) = 0

\* C4: writing the same visibility twice in a row emits display-changed at
\* most once in total: after a write of v, a second write of v emits nothing.
C4_SecondSetVisibleSilent ==
    lastOp.op = "display" =>
        CountOut(out, "displayChange")
            + CountOut(DisplaySetEmits(lastOp.arg, pathParent, pathDisplay), "displayChange")
          <= 1

\* C5: the geoJSON setter called with a non-Point feature throws the
\* unsupported-geometry error, leaves the position alone and emits nothing.
C5_NonPointRejected ==
    [][ (lastOp'.op = "geoJSON" /\ lastOp'.arg.geometry.type # "Point") =>
            /\ error' = "UnsupportedGeometry"
            /\ Len(out') = 0
            /\ Len(calls') = 0
            /\ latlng' = latlng ]_vars

\* an initialized circle at [0, 0] has rejected a LineString at [1, 1]
C5_Witness ==
    /\ initialized
    /\ lastOp.op = "geoJSON"
    /\ lastOp.arg.geometry.type = "LineString"
    /\ lastOp.arg.geometry.coordinates = << 1, 1 >>
    /\ error = "UnsupportedGeometry"
    /\ latlng = [lat |-> 0, lng |-> 0]

\* C6: every native event after construction is emitted exactly once on its
\* host output, with the same payload, and on no other re-emitted output; a
\* native double-click reaches the double-click output.
C6_EachNativeEventReemitted ==
    lastOp.op # "constructor" =>
        \A i \in 1..Len(fired) : \A o \in ReemitOutputs :
            IF o = HostOutput(fired[i].type)
            THEN CountOut(out, o) = 1 /\ ValOf(out, o) = fired[i]
            ELSE CountOut(out, o) = 0

\* C7: each native attach emits exactly one display-changed(true) and each
\* native detach exactly one display-changed(false), whatever the display
\* setter did before.
C7_AttachDetachDriveDisplay ==
    \A i \in 1..Len(fired) :
        /\ fired[i].type = "add" =>
            CountOut(out, "displayChange") = 1 /\ ValOf(out, "displayChange") = TRUE
        /\ fired[i].type = "remove" =>
            CountOut(out, "displayChange") = 1 /\ ValOf(out, "displayChange") = FALSE

\* a circle already hidden by the display setter is detached natively
C7_Witness ==
    /\ lastOp.op = "mapRemoveLayer"
    /\ pathDisplay = "none"
    /\ CountOut(out, "displayChange") = 1
    /\ ValOf(out, "displayChange") = FALSE

\* C8: construction registers the layer once; teardown unregisters it, once,
\* and is a no-op without error when it is already detached; no operation of
\* the directive registers it again.
C8_Lifecycle ==
    /\ (lastOp.op = "constructor" /\ calls = << "addLayer" >> /\ onMap = TRUE)
    /\ [][ /\ "addLayer" \notin Range(calls')
           /\ destroyed => destroyed'
           /\ "removeLayer" \in Range(calls') =>
                lastOp'.op = "ngOnDestroy" /\ ~destroyed /\ calls' = << "removeLayer" >>
           /\ lastOp'.op = "ngOnDestroy" =>
                /\ error' = "none"
                /\ ~onMap'
                /\ onMap => calls' = << "removeLayer" >>
                /\ ~onMap =>
                    /\ Len(calls') = 0 /\ Len(out') = 0 /\ Len(fired') = 0
                    /\ UNCHANGED <<layerVars, geoVars, interactive, lastDisplay>>
         ]_vars

\* teardown of a layer that was already detached
C8_Witness ==
    /\ lastOp.op = "ngOnDestroy"
    /\ destroyed
    /\ Len(calls) = 0
    /\ error = "none"
    /\ ~onMap

\* C9: the geoJSON export reflects the last applied position: after
\* setPosition(p) its coordinates are p, after a Point import they are the
\* imported coordinates with the imported properties, and no other operation
\* changes them.
C9_ExportReflectsPosition ==
    [][ /\ lastOp'.op \in {"setLatLng", "position"} =>
            geoJSON'.geometry.coordinates
                = << ShapeLng(lastOp'.arg), ShapeLat(lastOp'.arg) >>
        /\ lastOp'.op = "lat" =>
            geoJSON'.geometry.coordinates = << latlng.lng, lastOp'.arg >>
        /\ lastOp'.op = "lng" =>
            geoJSON'.geometry.coordinates = << lastOp'.arg, latlng.lat >>
        /\ (lastOp'.op = "geoJSON" /\ error' = "none") =>
            /\ geoJSON'.geometry.coordinates = lastOp'.arg.geometry.coordinates
            /\ geoJSON'.properties = lastOp'.arg.properties
        /\ (lastOp'.op \notin PositionOps \/ error' # "none") =>
            geoJSON'.geometry.coordinates = geoJSON.geometry.coordinates
      ]_vars

\* a Point feature at [lng 0, lat 1] was imported and is exported unchanged
C9_Witness ==
    /\ lastOp.op = "geoJSON"
    /\ error = "none"
    /\ lastOp.arg.geometry.coordinates = << 0, 1 >>
    /\ lastOp.arg.properties = "pB"
    /\ geoJSON.geometry.coordinates = << 0, 1 >>
    /\ geoJSON.properties = "pB"
    /\ latlng = [lat |-> 1, lng |-> 0]

\* C10: after any sequence of display writes and native attach/detach events,
\* the most recent display-changed payload equals what the display getter
\* returns.
C10_DisplayLockStep ==
    visOnly => lastDisplay = DisplayGet(pathParent, pathDisplay)

\* C11: on an attached layer the interactive setter stores the flag, then
\* calls onRemove, then onAdd, in that order; when it returns the layer is
\* attached to the same map, its path is in the renderer and interactive
\* reads the flag.
C11_InteractiveReattaches ==
    [][ (lastOp'.op = "interactive" /\ onMap) =>
            /\ calls' = << "options.interactive", "onRemove", "onAdd" >>
            /\ error' = "none"
            /\ onMap' = TRUE
            /\ pathParent' = TRUE
            /\ interactive' = lastOp'.arg ]_vars

\* interactivity was switched off on an attached layer
C11_Witness ==
    /\ lastOp.op = "interactive"
    /\ lastOp.arg = FALSE
    /\ Len(calls) = 3
    /\ onMap
    /\ pathParent
    /\ interactive = FALSE

\* C12: the constructor subscribes the two display handlers before it calls
\* addLayer and the twelve re-emission handlers after it.  So the attach that
\* addLayer causes during construction emits display-changed(true) and no add
\* output, while a later attach emits display-changed(true) and then the add
\* output, and a later detach display-changed(false) and then the remove
\* output.
C12_SubscriptionOrder ==
    /\ Len(ListenersAtAddLayer) = 2
    /\ \A i \in 1..Len(ListenersAtAddLayer) :
        ListenersAtAddLayer[i].output = "displayChange"
    /\ Len(Listeners) - Len(ListenersAtAddLayer) = 12
    /\ lastOp.op = "constructor" =>
        /\ Len(fired) = 1 /\ fired[1].type = "add"
        /\ Len(out) = 1
        /\ out[1].out = "displayChange" /\ out[1].val = TRUE
    /\ (lastOp.op # "constructor" /\ Len(fired) > 0 /\ fired[1].type = "add") =>
        /\ Len(out) = 2
        /\ out[1].out = "displayChange" /\ out[1].val = TRUE
        /\ out[2].out = "add" /\ out[2].val = fired[1]
    /\ (Len(fired) > 0 /\ fired[1].type = "remove") =>
        /\ Len(out) = 2
        /\ out[1].out = "displayChange" /\ out[1].val = FALSE
        /\ out[2].out = "remove" /\ out[2].val = fired[1]

\* an attach after construction: display-changed(true), then the add output
C12_Witness ==
    /\ lastOp.op = "mapAddLayer"
    /\ Len(out) = 2
    /\ out[1].out = "displayChange"
    /\ out[2].out = "add"

\* C13: the geoJSON setter replaces the feature properties before it checks
\* the geometry kind: after a call that fails with the unsupported-geometry
\* error the properties are the rejected feature's, the position is the
\* previous one and no geometry-interchange-changed notification was emitted.
C13_ImportNotAtomic ==
    [][ (lastOp'.op = "geoJSON" /\ error' = "UnsupportedGeometry") =>
            /\ properties' = lastOp'.arg.properties
            /\ geoJSON'.properties = lastOp'.arg.properties
            /\ latlng' = latlng
            /\ CountOut(out', "geoJSONChange") = 0 ]_vars

\* a rejected Polygon left its properties behind on a circle still at [0, 0]
C13_Witness ==
    /\ lastOp.op = "geoJSON"
    /\ lastOp.arg.geometry.type = "Polygon"
    /\ lastOp.arg.geometry.coordinates = << 1, 0 >>
    /\ lastOp.arg.properties = "pB"
    /\ error = "UnsupportedGeometry"
    /\ properties = "pB"
    /\ latlng = [lat |-> 0, lng |-> 0]

====
